---------------------------- MODULE Spec2Model ----------------------------
(***************************************************************************)
(* Blockwise suffix-array builder (blockwise_sa.h): the iterator of        *)
(* BlockwiseSA, and build / buildSamples / suffixCmp / tieBreakingLcp /    *)
(* nextBlock of KarkkainenBlockwiseSA.                                      *)
(*                                                                         *)
(* Offsets are 0-based as in the source; the text is a TLA+ sequence, so   *)
(* the character at offset i of text t is t[i + 1].                         *)
(***************************************************************************)
EXTENDS Integers, Sequences, FiniteSets, TLC

\* ------------------------------------------------------------------ bounds
\* Longest text explored by Spec (every text over Symbols up to this length).
MaxLen == 5
\* Length of the texts explored by SpecDc (every text over Symbols of this
\* length), long enough for the comparator to go past the Z horizon.
DcLen == 6
\* Largest requested bucket size explored (requests start at 1).
MaxBucketSz == 4
\* Width in bits of the model's unsigned offsets (uint32_t in the source).
OffBits == 8
\* Longest text explored by SpecRefine (texts of one repeated symbol), long
\* enough for buildSamples to use up its limit.
RefineLen == 22

\* ------------------------------------------------------- program constants
\* 0xffffffff, the "none" offset, at the model's width.
NONE == (2 ^ OffBits) - 1
\* uint32_t limit = 20 in buildSamples.
RefineLimit == 20
\* max(__bucketSz, 2u) in the constructor of BlockwiseSA.
MinBucketSz == 2

\* ------------------------------------------------------------------ inputs
\* The symbols of the texts.
Symbols == {0, 1}

\* The difference-cover periodicities explored: 0 (no difference cover) and
\* the smallest power of two above 3.
DcVs == {0, 4}

\* --------------------------------------------------------------- utilities
Min(a, b) == IF a < b THEN a ELSE b

Max(a, b) == IF a > b THEN a ELSE b

Range(s) == {s[x] : x \in 1 .. Len(s)}

\* erase(s, p): remove the element at 0-based position p.
EraseAt(s, p) == [x \in 1 .. Len(s) - 1 |-> IF x <= p THEN s[x] ELSE s[x + 1]]

\* insertValue(s, p, v): insert v so that it becomes 0-based position p.
InsertAt(s, p, v) ==
    [x \in 1 .. Len(s) + 1 |->
        IF x <= p THEN s[x] ELSE IF x = p + 1 THEN v ELSE s[x - 1]]

\* All texts of length exactly n over the alphabet.
TextsOfLen(n) == [1 .. n -> Symbols]

\* "banana" with a = 0, b = 1, n = 2.
Banana == <<1, 0, 2, 0, 2, 0>>

\* "aaaabaaaab": the second "aaaab" matches the first over five symbols, the
\* offsets inside it match the beginning of the text over fewer.
Repeated == <<0, 0, 0, 0, 1, 0, 0, 0, 0, 1>>

\* "aabaabaaaa": the period-three prefix lets a tie-breaker answer leave a
\* soft k that the next offset's Z box crosses.
Periodic == <<0, 0, 1, 0, 0, 1, 0, 0, 0, 0>>

\* "aaaaabaaba": a tie-breaker call here finds the mismatch before it reaches
\* the difference cover, so its answer is exact.
Uneven == <<0, 0, 0, 0, 0, 1, 0, 0, 1, 0>>

\* Texts the builder is run on under SpecDc.
DcTexts == TextsOfLen(DcLen)

\* Texts the builder is run on under SpecCmp: long enough for a scan to go
\* past the dcV entries of a Z array inside one match region.
CmpTexts == {Repeated, Periodic, Uneven}

\* Texts the builder is run on under Spec.
Texts == (UNION {TextsOfLen(n) : n \in 0 .. MaxLen}) \cup {Banana}

\* ------------------------------------------------------- suffix comparison
\* suffixLcp(t, aOff, bOff): plain character-wise longest common prefix.
RECURSIVE LcpFrom(_, _, _, _)
LcpFrom(t, aOff, bOff, c) ==
    IF aOff + c < Len(t) /\ bOff + c < Len(t) /\ t[aOff + c + 1] = t[bOff + c + 1]
    THEN LcpFrom(t, aOff, bOff, c + 1)
    ELSE c

suffixLcp(t, aOff, bOff) == LcpFrom(t, aOff, bOff, 0)

\* dollarLt(suffix(t, a), suffix(t, b)): raw character-wise comparison in
\* which the suffix that runs off the end of the text first is the greater
\* one (the appended $ is greater than every symbol).  a, b in 0 .. Len(t).
dollarLt(t, a, b) ==
    LET l == suffixLcp(t, a, b) IN
    IF a = b THEN FALSE
    ELSE IF a + l = Len(t) THEN FALSE
    ELSE IF b + l = Len(t) THEN TRUE
    ELSE t[a + l + 1] < t[b + l + 1]

\* Raw comparison under the other convention: the appended $ is smaller
\* than every symbol, so the suffix that runs off the end first is the
\* smaller one.
dollarLeastLt(t, a, b) ==
    LET l == suffixLcp(t, a, b) IN
    IF a = b THEN FALSE
    ELSE IF a + l = Len(t) THEN TRUE
    ELSE IF b + l = Len(t) THEN FALSE
    ELSE t[a + l + 1] < t[b + l + 1]

\* Number of members of set s whose suffix is smaller than suffix(i).
RankIn(t, s, i) == Cardinality({x \in s : dollarLt(t, x, i)})

\* mkeyQSortSuf / mkeyQSortSufDcU8: the offsets of sequence s rearranged in
\* suffix order (equal offsets end up next to each other).
mkeyQSortSuf(t, s) ==
    LET pos(x) == Cardinality({y \in 1 .. Len(s) : dollarLt(t, s[y], s[x])})
                  + Cardinality({y \in 1 .. x - 1 : s[y] = s[x]})
    IN [p \in 1 .. Len(s) |-> s[CHOOSE x \in 1 .. Len(s) : pos(x) = p - 1]]

\* binarySASearch(t, i, samples): the bucket suffix(i) falls into, or NONE
\* when i is one of the samples.
binarySASearch(t, i, samples) ==
    IF i \in Range(samples) THEN NONE ELSE RankIn(t, Range(samples), i)

\* --------------------------------------------- difference cover and Z array
\* The cover modulo v: residues 0 .. v/2, which is a difference cover
\* (every residue is a difference of two members).
dcCover(v) == 0 .. (v \div 2)

\* DifferenceCoverSample::tieBreakOff(a, b): the smallest d >= 0 with both
\* a + d and b + d in the cover, NONE when that lies beyond the text.
tieBreakOff(t, v, a, b) ==
    LET d == CHOOSE x \in 0 .. v - 1 :
                 /\ (a + x) % v \in dcCover(v)
                 /\ (b + x) % v \in dcCover(v)
                 /\ \A y \in 0 .. x - 1 :
                        ~((a + y) % v \in dcCover(v) /\ (b + y) % v \in dcCover(v))
    IN IF a + d < Len(t) /\ b + d < Len(t) THEN d ELSE NONE

\* DifferenceCoverSample::breakTie(a, b): -1, 0 or 1, the order of the two
\* suffixes, for offsets a, b inside the text.
breakTie(t, a, b) ==
    IF a = b THEN 0 ELSE IF dollarLt(t, a, b) THEN -1 ELSE 1

\* fill(z, v, 0) followed by calcZ(t, off, z): z[0] stays 0 and z[x] is the
\* longest common prefix of suffix(off + x) and suffix(off), for x < v.
\* Entry x of the array is calcZ(t, off, v)[x + 1].
calcZ(t, off, v) ==
    [x \in 1 .. v |->
        IF x = 1 \/ off + x - 1 >= Len(t) THEN 0
        ELSE suffixLcp(t, off + x - 1, off)]

\* lookupSuffixZ(t, zOff, off, z)
lookupSuffixZ(t, zOff, off, z) ==
    IF zOff < Len(z) THEN z[zOff + 1] ELSE suffixLcp(t, off + zOff, off)

\* --------------------------------------------------------------- comparator
\* The character-matching loop shared by tieBreakingLcp:
\*   while(c < dcDist && c < tlen-aOff && c < tlen-bOff && t[aOff+c] == t[bOff+c]) c++
RECURSIVE tieLoop(_, _, _, _, _)
tieLoop(t, aOff, bOff, dcDist, c) ==
    IF /\ c < dcDist
       /\ c < Len(t) - aOff
       /\ c < Len(t) - bOff
       /\ t[aOff + c + 1] = t[bOff + c + 1]
    THEN tieLoop(t, aOff, bOff, dcDist, c + 1)
    ELSE c

\* tieBreakingLcp with the answer of the difference cover read the wrong
\* way round (breakTie(...) > 0).
tieBreakingLcpFlipped(t, v, aOff, bOff) ==
    LET tlen   == Len(t)
        dcDist == tieBreakOff(t, v, aOff, bOff)
        c      == tieLoop(t, aOff, bOff, dcDist, 0)
    IN IF c = tlen - aOff THEN [ret |-> FALSE, lcp |-> c, lcpIsSoft |-> FALSE]
       ELSE IF c = tlen - bOff THEN [ret |-> TRUE, lcp |-> c, lcpIsSoft |-> FALSE]
       ELSE IF c = dcDist
            THEN [ret |-> breakTie(t, aOff + c, bOff + c) > 0,
                  lcp |-> c, lcpIsSoft |-> TRUE]
       ELSE [ret |-> t[aOff + c + 1] < t[bOff + c + 1],
             lcp |-> c, lcpIsSoft |-> FALSE]

\* tieBreakingLcp(aOff, bOff, lcp, lcpIsSoft): the returned flag and the two
\* out-parameters.
tieBreakingLcp(t, v, aOff, bOff) ==
    LET tlen   == Len(t)
        dcDist == tieBreakOff(t, v, aOff, bOff)
        c      == tieLoop(t, aOff, bOff, dcDist, 0)
    IN IF c = tlen - aOff THEN [ret |-> FALSE, lcp |-> c, lcpIsSoft |-> FALSE]
       ELSE IF c = tlen - bOff THEN [ret |-> TRUE, lcp |-> c, lcpIsSoft |-> FALSE]
       ELSE IF c = dcDist
            THEN [ret |-> breakTie(t, aOff + c, bOff + c) < 0,
                  lcp |-> c, lcpIsSoft |-> TRUE]
       ELSE [ret |-> t[aOff + c + 1] < t[bOff + c + 1],
             lcp |-> c, lcpIsSoft |-> FALSE]

\* The extension loop of suffixCmp; returns the number of characters added:
\*   while(l < len-cmp && k < len && t[cmp+l] == t[k]) { k++; l++; }
RECURSIVE extendLoop(_, _, _, _, _)
extendLoop(t, cmp, l, k, e) ==
    IF /\ l + e < Len(t) - cmp
       /\ k + e < Len(t)
       /\ t[cmp + l + e + 1] = t[k + e + 1]
    THEN extendLoop(t, cmp, l, k, e + 1)
    ELSE e

\* cmpNextChar with the textbook convention instead: the suffix that falls
\* off the text first is the smaller one.
cmpNextCharPaper(t, cmp, i, l) ==
    \/ l + i = Len(t)
    \/ /\ l # Len(t) - cmp
       /\ i + l < Len(t)
       /\ cmp + l < Len(t)
       /\ t[i + l + 1] < t[cmp + l + 1]

\* The final comparison of suffixCmp on the next character:
\*   l+i != len && (l == len-cmp || t[i + l] < t[cmp + l])
\* (the characters are read only inside the text, which the assertions
\* l+i <= len and l <= len-cmp before it state).
cmpNextChar(t, cmp, i, l) ==
    /\ l + i # Len(t)
    /\ \/ l = Len(t) - cmp
       \/ /\ i + l < Len(t)
          /\ cmp + l < Len(t)
          /\ t[i + l + 1] < t[cmp + l + 1]

\* The end of suffixCmp once j, k, kSoft and l are settled: the final
\* comparison and the unconditional assertions before it
\*   assert_leq(l+i, len); assert_leq(l, len-cmp);
\*   assert(l != len-cmp || i+l != len);
\* The result holds the returned flag, the updated comparator state, the
\* match length l, the path taken and whether every assertion on the way
\* held (pre: those before this point).
cmpDone(t, cmp, i, j, k, kSoft, l, path, pre) ==
    [ret |-> cmpNextChar(t, cmp, i, l),
     j |-> j, k |-> k, kSoft |-> kSoft, l |-> l, path |-> path,
     ok |-> /\ pre
            /\ l + i <= Len(t)
            /\ l <= Len(t) - cmp
            /\ (l # Len(t) - cmp \/ i + l # Len(t))]

\* cmpExtended that leaves l as it was before the extension.
cmpExtendedNoL(t, cmp, i, k, l, e, path, pre) ==
    cmpDone(t, cmp, i, i, k + e, FALSE, l, path,
            pre /\ l + e = suffixLcp(t, i, cmp))

\* After an extension by e characters: k += e, l += e, j = i, kSoft = false,
\* assert_eq(l, suffixLcp(t, i, cmp)).
cmpExtended(t, cmp, i, k, l, e, path, pre) ==
    cmpDone(t, cmp, i, i, k + e, FALSE, l + e, path,
            pre /\ l + e = suffixLcp(t, i, cmp))

\* The two branches after the Z-box lookup gave l (and the case that takes
\* neither):  if(i + l == k) extend;  else if(i + l > k) { l = k - i; j = i;
\* if(kSoft) extend and clear kSoft; }
cmpCovered(t, cmp, i, st, l, pre) ==
    IF i + l = st.k
    THEN cmpExtended(t, cmp, i, st.k, l, extendLoop(t, cmp, l, st.k, 0),
                     "extend", pre)
    ELSE IF i + l > st.k
    THEN IF st.kSoft
         THEN cmpExtended(t, cmp, i, st.k, st.k - i,
                          extendLoop(t, cmp, st.k - i, st.k, 0), "crossSoft", pre)
         ELSE cmpExtended(t, cmp, i, st.k, st.k - i, 0, "cross", pre)
    ELSE cmpDone(t, cmp, i, st.j, st.k, st.kSoft, l, "inside", pre)

\* l = lookupSuffixZ(...); if(i + l > len) l = len-i;
clampZ(t, i, lz) == IF i + lz > Len(t) THEN Len(t) - i ELSE lz

\* cmpTie that sets k = i, without the tie-breaker's l.
cmpTieDropsL(i, tb, pre) ==
    [ret |-> tb.ret, j |-> i, k |-> i, kSoft |-> tb.lcpIsSoft,
     l |-> tb.lcp, path |-> "tie", ok |-> pre]

\* The tie-breaker branch: j = i; k = i + l; return ret.
cmpTie(i, tb, pre) ==
    [ret |-> tb.ret, j |-> i, k |-> i + tb.lcp, kSoft |-> tb.lcpIsSoft,
     l |-> tb.lcp, path |-> "tie", ok |-> pre]

\* suffixCmp(cmp, i, j, k, kSoft, z).  st is the comparator state
\* [j, k, kSoft] of the bookend cmp.
suffixCmp(t, v, hasDc, cmp, i, st, z) ==
    IF i > st.k
    THEN \* i is not covered by any previous match: k = i, l = 0, kSoft = false
         cmpExtended(t, cmp, i, i, 0, extendLoop(t, cmp, 0, i, 0), "fresh", TRUE)
    ELSE \* assert_gt((int64_t)i, j); assert_leq(zIdx, len-cmp)
         IF i - st.j < v \/ ~hasDc
         THEN \* go as far as the Z-box says; assert_leq(i + l, len)
              cmpCovered(t, cmp, i, st,
                         clampZ(t, i, lookupSuffixZ(t, i - st.j, cmp, z)),
                         i > st.j /\ i - st.j <= Len(t) - cmp)
         ELSE \* past the point of no-more-Z-boxes
              cmpTie(i, tieBreakingLcp(t, v, i, cmp),
                     i > st.j /\ i - st.j <= Len(t) - cmp)

\* ---------------------------------------------------------------- nextBlock
\* The offsets visited by the two nested "ten stretches" loops, in order:
\*   lenDiv10 = (len + 9) / 10;
\*   for(iten = 0; iten < len; iten += lenDiv10)
\*     for(i = iten; i < iten + lenDiv10 && i < len; i++)
\* in unsigned arithmetic of OffBits bits.
RECURSIVE stretchInner(_, _, _, _)
stretchInner(len, itenNext, i, acc) ==
    IF i < itenNext /\ i < len
    THEN stretchInner(len, itenNext, (i + 1) % (2 ^ OffBits), Append(acc, i))
    ELSE acc

RECURSIVE stretchOuter(_, _, _, _)
stretchOuter(len, lenDiv10, iten, acc) ==
    IF iten < len
    THEN stretchOuter(len, lenDiv10, (iten + lenDiv10) % (2 ^ OffBits),
                      stretchInner(len, (iten + lenDiv10) % (2 ^ OffBits), iten, acc))
    ELSE acc

scanOrder(len) == stretchOuter(len, ((len + 9) % (2 ^ OffBits)) \div 10, 0, <<>>)

\* cmpInit that starts j and k at 0.
cmpInitZero == [j |-> 0, k |-> 0, kSoft |-> FALSE]

\* int64_t kHi = -1, jHi = -1; bool kHiSoft = false (and the same for Lo).
cmpInit == [j |-> -1, k |-> -1, kSoft |-> FALSE]

\* The record kept of one suffixCmp call and its outcome r.
callOf(cmp, i, r) ==
    [cmp |-> cmp, i |-> i, ret |-> r.ret, l |-> r.l, path |-> r.path,
     j |-> r.j, k |-> r.k, kSoft |-> r.kSoft]

\* The accumulator a after the upper-bound call returned h.
afterHi(a, hi, i, h) ==
    [a EXCEPT !.stHi = [j |-> h.j, k |-> h.k, kSoft |-> h.kSoft],
              !.ok = @ /\ h.ok,
              !.calls = Append(@, callOf(hi, i, h))]

\* The accumulator a after the lower-bound call returned w: offset i is
\* appended to the bucket unless w says suffix(i) < suffix(lo);
\* assert_lt(i, len); assert_lt(length(bucket), this->bucketSz()).
afterLo(t, B, a, lo, i, w) ==
    [a EXCEPT !.stLo = [j |-> w.j, k |-> w.k, kSoft |-> w.kSoft],
              !.ok = @ /\ w.ok /\ (w.ret \/ (i < Len(t) /\ Len(a.bucket) + 1 < B)),
              !.calls = Append(@, callOf(lo, i, w)),
              !.bucket = IF w.ret THEN @ ELSE Append(@, i)]

\* In the bucket (no lower bookend): append(bucket, i) and its assertions.
addToBucket(t, B, a, i) ==
    [a EXCEPT !.bucket = Append(@, i),
              !.ok = @ /\ i < Len(t) /\ Len(a.bucket) + 1 < B]

\* lowerHalf that never asks the lower-bound comparator.
lowerHalfNoCheck(t, B, v, hasDc, lo, zLo, i, a1) == addToBucket(t, B, a1, i)

\* The lower-bound half of one iteration, on the accumulator a1 the
\* upper-bound half left.
lowerHalf(t, B, v, hasDc, lo, zLo, i, a1) ==
    IF lo # NONE
    THEN afterLo(t, B, a1, lo, i, suffixCmp(t, v, hasDc, lo, i, a1.stLo, zLo))
    ELSE addToBucket(t, B, a1, i)

\* The rest of an iteration once the upper-bound half left a1: continue
\* when the last call said suffix(i) > suffix(hi).
upperDone(t, B, v, hasDc, lo, zLo, i, a1) ==
    IF ~a1.calls[Len(a1.calls)].ret THEN a1
    ELSE lowerHalf(t, B, v, hasDc, lo, zLo, i, a1)

\* One iteration of the block accumulator loop at offset i.  a holds the two
\* comparator states, the bucket so far, whether every assertion held, and
\* the suffixCmp calls made so far.
\*   assert_lt(jLo, i); assert_lt(jHi, i);
\*   if(i == hi || i == lo) continue;
\*   if(hi != 0xffffffff && !suffixCmp(hi, ...)) continue;
\*   if(lo != 0xffffffff && suffixCmp(lo, ...)) continue;
\*   append(bucket, i);
scanStep(t, B, v, hasDc, lo, hi, zLo, zHi, i, a) ==
    IF i = hi \/ i = lo
    THEN [a EXCEPT !.ok = @ /\ a.stLo.j < i /\ a.stHi.j < i]
    ELSE IF hi # NONE
    THEN upperDone(t, B, v, hasDc, lo, zLo, i,
             afterHi([a EXCEPT !.ok = @ /\ a.stLo.j < i /\ a.stHi.j < i], hi, i,
                     suffixCmp(t, v, hasDc, hi, i, a.stHi, zHi)))
    ELSE lowerHalf(t, B, v, hasDc, lo, zLo, i,
             [a EXCEPT !.ok = @ /\ a.stLo.j < i /\ a.stHi.j < i])

RECURSIVE scanLoop(_, _, _, _, _, _, _, _, _, _, _)
scanLoop(t, B, v, hasDc, lo, hi, zLo, zHi, order, p, a) ==
    IF p > Len(order) THEN a
    ELSE scanLoop(t, B, v, hasDc, lo, hi, zLo, zHi, order, p + 1,
                  scanStep(t, B, v, hasDc, lo, hi, zLo, zHi, order[p], a))

\* hiOf that always takes the first sample (_sampleSuffs[0]).
hiOfFirst(samples, c) ==
    IF Len(samples) # 0 /\ c < Len(samples) THEN samples[1] ELSE NONE

\* hi = _sampleSuffs[_cur] unless this is the last block.
hiOf(samples, c) ==
    IF Len(samples) # 0 /\ c < Len(samples) THEN samples[c + 1] ELSE NONE

\* lo = _sampleSuffs[_cur-1] unless this is the first block.
loOf(samples, c) ==
    IF Len(samples) # 0 /\ c # 0 /\ c <= Len(samples) THEN samples[c] ELSE NONE

\* zHi / zLo: the Z array of a bookend (none for an absent bookend).
zOf(t, v, off) == IF off # NONE THEN calcZ(t, off, v) ELSE <<>>

\* The block accumulator loop of nextBlock for block index c, with
\*   assert_eq(zHi[0], 0); assert_gt(_dcV, 3); assert_eq(zLo[0], 0).
accumulate(t, B, v, hasDc, samples, c) ==
    scanLoop(t, B, v, hasDc, loOf(samples, c), hiOf(samples, c),
             zOf(t, v, loOf(samples, c)), zOf(t, v, hiOf(samples, c)),
             scanOrder(Len(t)), 1,
             [stHi |-> cmpInit, stLo |-> cmpInit, bucket |-> <<>>,
              ok |-> v > 3, calls |-> <<>>])

\* allInclusive whose loop runs through i = len (i <= len).
allInclusiveThroughLen(t, c) ==
    [stHi |-> cmpInit, stLo |-> cmpInit,
     bucket |-> [x \in 1 .. Len(t) + 1 |-> x - 1], ok |-> c = 0, calls |-> <<>>]

\* The special case of no samples: for(i = 0; i < len; i++) append(bucket, i),
\* with assert_eq(0, _cur).
allInclusive(t, c) ==
    [stHi |-> cmpInit, stLo |-> cmpInit,
     bucket |-> [x \in 1 .. Len(t) |-> x - 1], ok |-> c = 0, calls |-> <<>>]

\* finishBlock that appends len to every block, also to one that has an
\* upper sample.
finishBlockNoHi(t, v, samples, c, acc) ==
    [bucket |-> Append(mkeyQSortSuf(t, acc.bucket), Len(t)),
     cur |-> c + 1,
     ok |-> v > 3 /\ c <= Len(samples) /\ acc.ok,
     calls |-> acc.calls]

\* The end of nextBlock on the accumulated bucket: sort it, append hi or
\* len, advance _cur.  ok also carries assert_gt(_dcV, 3) and
\* assert_leq(_cur, length(_sampleSuffs)) of its beginning.
finishBlock(t, v, samples, c, acc) ==
    [bucket |-> Append(mkeyQSortSuf(t, acc.bucket),
                       IF hiOf(samples, c) # NONE THEN hiOf(samples, c) ELSE Len(t)),
     cur |-> c + 1,
     ok |-> v > 3 /\ c <= Len(samples) /\ acc.ok,
     calls |-> acc.calls]

\* KarkkainenBlockwiseSA::nextBlock with _cur = c: the new _itrBucket, the
\* new _cur, whether every assertion held, and the suffixCmp calls made.
nextBlock(t, B, v, hasDc, samples, c) ==
    finishBlock(t, v, samples, c,
                IF Len(samples) = 0 THEN allInclusive(t, c)
                ELSE accumulate(t, B, v, hasDc, samples, c))

\* ------------------------------------------------------------- buildSamples
\* uint32_t numSamples = ((len/bsz)+1)<<1
numSamples(len, bsz) == (((len \div bsz) + 1) * 2) % (2 ^ OffBits)

\* The numSamples values _randomSrc.nextU32() % len after
\* sort(begin(_sampleSuffs), end(_sampleSuffs)): the members of the non-empty
\* set d in increasing order, the member at 1-based position dupAt repeated to
\* fill up numSamples entries.
sortedDraws(d, dupAt, m) ==
    LET n == Cardinality(d)
        asc == [x \in 1 .. n |-> CHOOSE o \in d : Cardinality({y \in d : y < o}) = x - 1]
    IN [x \in 1 .. m |->
          IF x <= dupAt THEN asc[x]
          ELSE IF x <= dupAt + (m - n) THEN asc[dupAt]
          ELSE asc[x - (m - n)]]

\* for(size_t i = 0; i < length(_sampleSuffs)-1; i++)
\*     if(_sampleSuffs[i] == _sampleSuffs[i+1]) erase(_sampleSuffs, i--);
RECURSIVE removeDups(_, _)
removeDups(s, i) ==
    IF i < Len(s) - 1
    THEN IF s[i + 1] = s[i + 2]
         THEN removeDups(EraseAt(s, i), i)
         ELSE removeDups(s, i + 1)
    ELSE s

\* The members of bucket r: the non-sample offsets binarySASearch sends to r.
bucketMembers(t, samples, r) ==
    {i \in Range(scanOrder(Len(t))) : binarySASearch(t, i, samples) = r}

\* measureSzs that misses one member of every bucket that has any.
measureSzsShort(t, samples) ==
    [x \in 1 .. Len(samples) + 1 |->
        Max(Cardinality(bucketMembers(t, samples, x - 1)) - 1, 0)]

\* bucketSzs after the binary-sorting loop (entry r is at position r + 1).
measureSzs(t, samples) ==
    [x \in 1 .. Len(samples) + 1 |-> Cardinality(bucketMembers(t, samples, x - 1))]

\* The representatives a bucket with members mem can end up with: the first
\* member visited is always taken and a later one replaces it when
\* (_randomSrc.nextU32() & 1) == 0, rnd being the values nextU32 can return.
\* 0xffffffff for an empty bucket.
repOptions(mem, rnd) ==
    IF mem = {} THEN {NONE}
    ELSE {x \in mem :
            /\ (\E y \in mem : y < x) => (\E b \in rnd : b % 2 = 0)
            /\ (\E y \in mem : y > x) => (\E b \in rnd : b % 2 = 1)}

\* Every value bucketReps can have after the binary-sorting loop (entry r is
\* at position r + 1), for the first nb buckets.
RECURSIVE repChoices(_, _, _, _)
repChoices(t, samples, nb, rnd) ==
    IF nb = 0 THEN {<<>>}
    ELSE {Append(f, x) : f \in repChoices(t, samples, nb - 1, rnd),
                         x \in repOptions(bucketMembers(t, samples, nb - 1), rnd)}

\* mergeWanted that forgets the removed sample joins the merged bucket.
mergeWantedLoose(mergedSz, bsz) == mergedSz <= bsz + 1

\* Merge?  if(mergedSz <= bsz)
mergeWanted(mergedSz, bsz) == mergedSz <= bsz

\* splitWanted that lets a bucket of bsz + 1 through.
splitWantedLoose(sz, bsz) == sz > bsz + 1

\* Split?  else if(bucketSzs[i] > bsz)
splitWanted(sz, bsz) == sz > bsz

\* mergePos that forgets the samples inserted earlier in the pass.
mergePosNoAdded(i, added) == i

\* The position in _sampleSuffs of the sample above bucket i: i + added
\* (bucketReps[i+1] = _sampleSuffs[i+added]; erase(_sampleSuffs, i+added)).
mergePos(i, added) == i + added

\* The record kept of one iteration of the split/merge loop on loop state m:
\* what it did, the sizes it looked at, the sample it removed or inserted and
\* the state it left (after).
stepOf(kind, m, elt, after) ==
    [kind |-> kind, i |-> m.i,
     szI |-> m.szs[m.i + 1],
     hasNext |-> m.i < m.numBuckets - 1,
     szNext |-> IF m.i < m.numBuckets - 1 THEN m.szs[m.i + 2] ELSE 0,
     fromMerge |-> m.mergedAt = m.i,
     rep |-> m.reps[m.i + 1],
     elt |-> elt,
     before |-> m.samples, samples |-> after.samples,
     numBuckets |-> after.numBuckets, added |-> after.added]

\* The loop state after one iteration, with the iteration logged.
logged(kind, m, elt, after) ==
    [after EXCEPT !.steps = Append(@, stepOf(kind, m, elt, after))]

\* mergeStep that leaves bucketReps[i+1] as the binary-sorting loop set it.
mergeStepKeepsRep(m, pos, pre) ==
    [m EXCEPT !.szs = EraseAt([m.szs EXCEPT ![m.i + 2] = @ + m.szs[m.i + 1] + 1], m.i),
              !.reps = EraseAt(m.reps, m.i),
              !.samples = EraseAt(m.samples, pos),
              !.numBuckets = @ - 1,
              !.merged = @ + 1,
              !.mergedAt = m.i,
              !.ok = @ /\ pre
                       /\ m.numBuckets - 1 = Len(m.samples) - 1 + 1 - m.added
                       /\ m.numBuckets - 1 = Len(m.szs) - 1]

\* The loop state after merging bucket i into bucket i+1; i-- and i++ leave i
\* in place.  pos is the position of the sample removed.
mergeStep(m, pos, pre) ==
    [m EXCEPT !.szs = EraseAt([m.szs EXCEPT ![m.i + 2] = @ + m.szs[m.i + 1] + 1], m.i),
              !.reps = EraseAt([m.reps EXCEPT ![m.i + 2] = m.samples[pos + 1]], m.i),
              !.samples = EraseAt(m.samples, pos),
              !.numBuckets = @ - 1,
              !.merged = @ + 1,
              !.mergedAt = m.i,
              !.ok = @ /\ pre
                       /\ m.numBuckets - 1 = Len(m.samples) - 1 + 1 - m.added
                       /\ m.numBuckets - 1 = Len(m.szs) - 1]

\* The loop state after splitting bucket i with its representative.
splitStep(m, pre) ==
    [m EXCEPT !.samples = InsertAt(@, m.i + m.added, m.reps[m.i + 1]),
              !.added = @ + 1,
              !.i = @ + 1,
              !.ok = @ /\ pre]

\* The split/merge loop  for(uint32_t i = 0; i < numBuckets; i++) { ... }.
\* m holds i, numBuckets, the samples, bucketSzs, bucketReps, added, merged,
\* whether every assertion held, the bucket the last merge produced and the
\* log of the iterations.
RECURSIVE splitMergeLoop(_, _)
splitMergeLoop(bsz, m) ==
    IF ~(m.i < m.numBuckets) THEN m
    ELSE
      LET i == m.i
          mergedSz == IF i < m.numBuckets - 1
                      THEN m.szs[i + 1] + m.szs[i + 2] + 1
                      ELSE bsz + 1
          pre == m.szs[i + 1] = 0 \/ m.reps[i + 1] # NONE
      IN
      IF mergeWanted(mergedSz, bsz)
      THEN splitMergeLoop(bsz,
               logged("merge", m, m.samples[mergePos(i, m.added) + 1],
                      mergeStep(m, mergePos(i, m.added), pre)))
      ELSE IF splitWanted(m.szs[i + 1], bsz)
      THEN splitMergeLoop(bsz, logged("split", m, m.reps[i + 1], splitStep(m, pre)))
      ELSE splitMergeLoop(bsz,
               logged("none", m, NONE, [m EXCEPT !.i = @ + 1, !.ok = @ /\ pre]))

\* One pass of the refinement loop: measure, then split and merge.
refinePass(t, bsz, samples, reps) ==
    splitMergeLoop(bsz,
        [i |-> 0, numBuckets |-> Len(samples) + 1, samples |-> samples,
         szs |-> measureSzs(t, samples), reps |-> reps,
         added |-> 0, merged |-> 0, ok |-> TRUE, mergedAt |-> -1,
         steps |-> <<>>])

\* ------------------------------------------------------------------- state
VARIABLES
    text,                 \* _text
    bucketSz,             \* _bucketSz
    dcV,                  \* _dcV
    dc,                   \* _dc != NULL
    sampleSuffs,          \* _sampleSuffs
    cur,                  \* _cur
    built,                \* _built
    itrBucket,            \* _itrBucket
    itrBucketPos,         \* _itrBucketPos
    itrPushedBackSuffix,  \* _itrPushedBackSuffix
    pc,                   \* where the constructor is: "ctor", "buildSamples",
                          \* "refine", or "ready" once it has returned
    limit,                \* the local limit of buildSamples
    ret,                  \* the last public call, the situation it was made
                          \* in and what it returned
    out,                  \* offsets returned by nextSuffix since construction
                          \* or since the last resetSuffixItr
    randomSrc,            \* _randomSrc: the values nextU32() can return
    scan                  \* the locals of a ten-stretch scan loop run on its
                          \* own: len, lenDiv10, iten, itenNext, i, the
                          \* offsets visited, and where the loop is

vars == <<text, bucketSz, dcV, dc, sampleSuffs, cur, built, itrBucket,
          itrBucketPos, itrPushedBackSuffix, pc, limit, ret, out, randomSrc,
          scan>>

config == <<text, bucketSz, dcV, randomSrc>>

\* No scan loop is being stepped through.
noScan == [len |-> 0, lenDiv10 |-> 0, iten |-> 0, itenNext |-> 0, i |-> 0,
           visited |-> <<>>, at |-> "idle"]

\* Every value of a uint32_t.
AnyU32 == 0 .. (2 ^ OffBits) - 1

noCall == [op |-> "none", at |-> "fresh", thrown |-> FALSE, off |-> NONE,
           flag |-> FALSE]

\* ---------------------------------------------------------------- iterator
\* The iterator fields of the current state as one record.
itr == [bucket |-> itrBucket, pos |-> itrBucketPos,
        pushed |-> itrPushedBackSuffix, cur |-> cur]

\* hasMoreBlocks that is one block short.
hasMoreBlocksStrict(samples, c) == c < Len(samples)

\* KarkkainenBlockwiseSA::hasMoreBlocks
hasMoreBlocks(samples, c) == c <= Len(samples)

\* The condition of the while loop of nextSuffix: the bucket is used up.
consumed(it) == it.pos >= Len(it.bucket) \/ Len(it.bucket) = 0

\* The situation a public call is made in: a pushed-back suffix is pending;
\* no block has been fetched yet; every block is fetched and used up; or
\* anywhere else in the iteration.
situation ==
    IF itrPushedBackSuffix # NONE THEN "pending"
    ELSE IF cur = 0 THEN "fresh"
    ELSE IF consumed(itr) /\ ~hasMoreBlocks(sampleSuffs, cur) THEN "exhausted"
    ELSE "mid"

\* nextBlock(); _itrBucketPos = 0; on iterator state it.
refill(it, nb) == [it EXCEPT !.bucket = nb.bucket, !.cur = nb.cur, !.pos = 0]

\* outOfRange that rewinds the block cursor as it throws.
outOfRangeRewinds(it) ==
    [it |-> [it EXCEPT !.cur = 0], thrown |-> TRUE, off |-> NONE]

\* throw out_of_range("No more suffixes"): nextSuffix is left with the
\* iterator state it as it is.
outOfRange(it) == [it |-> it, thrown |-> TRUE, off |-> NONE]

\* The while loop of nextSuffix and the return after it.
RECURSIVE refillLoop(_, _, _, _, _, _)
refillLoop(t, B, v, hasDc, samples, it) ==
    IF consumed(it)
    THEN IF ~hasMoreBlocks(samples, it.cur)
         THEN outOfRange(it)
         ELSE refillLoop(t, B, v, hasDc, samples,
                         refill(it, nextBlock(t, B, v, hasDc, samples, it.cur)))
    ELSE [it |-> [it EXCEPT !.pos = @ + 1], thrown |-> FALSE,
          off |-> it.bucket[it.pos + 1]]

\* BlockwiseSA::nextSuffix on iterator state it: the new iterator state,
\* whether out_of_range was thrown, and the offset returned.
nextSuffix(t, B, v, hasDc, samples, it) ==
    IF it.pushed # NONE
    THEN [it |-> [it EXCEPT !.pushed = NONE], thrown |-> FALSE, off |-> it.pushed]
    ELSE refillLoop(t, B, v, hasDc, samples, it)

\* stash that reports success without keeping the fetched offset.
stashLose(r) ==
    IF r.thrown THEN [it |-> r.it, flag |-> FALSE]
    ELSE [it |-> r.it, flag |-> TRUE]

\* The try/catch of hasMoreSuffixes around r, the outcome of nextSuffix.
stash(r) ==
    IF r.thrown THEN [it |-> r.it, flag |-> FALSE]
    ELSE [it |-> [r.it EXCEPT !.pushed = r.off], flag |-> TRUE]

\* hasMoreSuffixes that answers from the block cursor without fetching.
hasMoreSuffixesPeek(t, B, v, hasDc, samples, it) ==
    IF it.pushed # NONE THEN [it |-> it, flag |-> TRUE]
    ELSE [it |-> it, flag |-> hasMoreBlocks(samples, it.cur)]

\* BlockwiseSA::hasMoreSuffixes on iterator state it: the new iterator state
\* and the flag returned.
hasMoreSuffixes(t, B, v, hasDc, samples, it) ==
    IF it.pushed # NONE THEN [it |-> it, flag |-> TRUE]
    ELSE stash(nextSuffix(t, B, v, hasDc, samples, it))

\* resetSuffixItr that leaves the pushed-back suffix in place.
resetSuffixItrKeepPushback(it) ==
    [bucket |-> <<>>, pos |-> NONE, pushed |-> it.pushed, cur |-> 0]

\* BlockwiseSA::resetSuffixItr with KarkkainenBlockwiseSA::reset (the
\* builder is built).
resetSuffixItr(it) ==
    [bucket |-> <<>>, pos |-> NONE, pushed |-> NONE, cur |-> 0]

\* The iterator state the constructor leaves.
freshItr == [bucket |-> <<>>, pos |-> NONE, pushed |-> NONE, cur |-> 0]

\* The offsets nextSuffix returns when called on it until it throws (at most
\* fuel calls); r is the outcome of the first call.
RECURSIVE drainFrom(_, _, _, _, _, _, _)
drainFrom(t, B, v, hasDc, samples, r, fuel) ==
    IF fuel = 0 \/ r.thrown THEN <<>>
    ELSE <<r.off>> \o drainFrom(t, B, v, hasDc, samples,
                                nextSuffix(t, B, v, hasDc, samples, r.it), fuel - 1)

drain(t, B, v, hasDc, samples, it, fuel) ==
    drainFrom(t, B, v, hasDc, samples, nextSuffix(t, B, v, hasDc, samples, it), fuel)

\* ------------------------------------------------------------------ actions
Init ==
    /\ text \in Texts
    /\ bucketSz \in {Max(b, MinBucketSz) : b \in 1 .. MaxBucketSz}
    /\ dcV \in DcVs
    /\ dc = FALSE
    /\ sampleSuffs = <<>>
    /\ cur = 0
    /\ built = FALSE
    /\ itrBucket = <<>>
    /\ itrBucketPos = NONE
    /\ itrPushedBackSuffix = NONE
    /\ pc = "ctor"
    /\ limit = 0
    /\ ret = noCall
    /\ out = <<>>
    /\ randomSrc = AnyU32
    /\ scan = noScan

\* samplesNeeded that skips the samples for a text of exactly B symbols.
samplesNeededStrict(B, len) == B < len

\* if(this->bucketSz() <= length(this->text())) buildSamples();
samplesNeeded(B, len) == B <= len

\* The constructor body: reset() -> build(), up to the call of buildSamples.
Build ==
    /\ pc = "ctor"
    /\ dc' = (dcV # 0)
    /\ IF samplesNeeded(bucketSz, Len(text))
       THEN /\ pc' = "buildSamples"
            /\ UNCHANGED <<built, cur>>
       ELSE /\ pc' = "ready"
            /\ built' = TRUE
            /\ cur' = 0
    /\ UNCHANGED <<config, sampleSuffs, itrBucket, itrBucketPos,
                   itrPushedBackSuffix, limit, ret, out, scan>>

\* buildSamples up to the refinement loop: draw, sort, remove duplicates,
\* sort by suffix.
BuildSamplesDraw ==
    /\ pc = "buildSamples"
    /\ LET len == Len(text)
           m   == numSamples(len, bucketSz - 1)
       IN \E d \in SUBSET {x % len : x \in randomSrc} :
            /\ d # {}
            /\ Cardinality(d) <= m
            /\ \E dupAt \in 1 .. Cardinality(d) :
                 sampleSuffs' =
                     mkeyQSortSuf(text, removeDups(sortedDraws(d, dupAt, m), 0))
    /\ limit' = RefineLimit
    /\ pc' = "refine"
    /\ UNCHANGED <<config, dc, cur, built, itrBucket, itrBucketPos,
                   itrPushedBackSuffix, ret, out, scan>>

\* limitExhausted that never ends the loop.
limitExhaustedNever(l) == FALSE

\* The test of  while(--limit != 0)  on the value l of limit before the
\* decrement: the loop is left when the decremented limit is 0.
limitExhausted(l) == l - 1 = 0

\* One turn of while(--limit != 0) { ... }: a measuring pass with its
\* split/merge loop, or, when the limit is used up, the recursive call of
\* buildSamples.  When the pass made no split, buildSamples and build
\* return and reset sets _cur.
RefinePass ==
    /\ pc = "refine"
    /\ IF limitExhausted(limit)
       THEN /\ pc' = "buildSamples"
            /\ limit' = limit - 1
            /\ UNCHANGED <<sampleSuffs, built, cur>>
       ELSE \E reps \in repChoices(text, sampleSuffs, Len(sampleSuffs) + 1,
                                    randomSrc) :
            \E m \in {refinePass(text, bucketSz - 1, sampleSuffs, reps)} :
              /\ sampleSuffs' = m.samples
              /\ limit' = limit - 1
              /\ IF m.added = 0
                 THEN /\ pc' = "ready"
                      /\ built' = TRUE
                      /\ cur' = 0
                 ELSE /\ pc' = "refine"
                      /\ UNCHANGED <<built, cur>>
    /\ UNCHANGED <<config, dc, itrBucket, itrBucketPos, itrPushedBackSuffix,
                   ret, out, scan>>

NextSuffix ==
    /\ pc = "ready"
    /\ \E r \in {nextSuffix(text, bucketSz, dcV, dc, sampleSuffs, itr)} :
       /\ itrBucket' = r.it.bucket
       /\ itrBucketPos' = r.it.pos
       /\ itrPushedBackSuffix' = r.it.pushed
       /\ cur' = r.it.cur
       /\ ret' = [op |-> "nextSuffix", at |-> situation, thrown |-> r.thrown, off |-> r.off,
                  flag |-> FALSE]
       /\ out' = IF r.thrown THEN out ELSE Append(out, r.off)
    /\ UNCHANGED <<config, dc, sampleSuffs, built, pc, limit, scan>>

HasMoreSuffixes ==
    /\ pc = "ready"
    /\ \E r \in {hasMoreSuffixes(text, bucketSz, dcV, dc, sampleSuffs, itr)} :
       /\ itrBucket' = r.it.bucket
       /\ itrBucketPos' = r.it.pos
       /\ itrPushedBackSuffix' = r.it.pushed
       /\ cur' = r.it.cur
       /\ ret' = [op |-> "hasMoreSuffixes", at |-> situation, thrown |-> FALSE, off |-> NONE,
                  flag |-> r.flag]
    /\ UNCHANGED <<config, dc, sampleSuffs, built, pc, limit, out, scan>>

\* resetBuilds that builds on every reset.
resetBuildsAlways(b) == TRUE

\* KarkkainenBlockwiseSA::reset:  if(!_built) build();  on the value b of
\* _built.
resetBuilds(b) == ~b

\* resetSuffixItr: clear the iterator fields, then reset(), which builds
\* when the builder is not built (the run goes through build() again) and
\* sets _cur = 0.
ResetSuffixItr ==
    /\ pc = "ready"
    /\ \E r \in {resetSuffixItr(itr)} :
       /\ itrBucket' = r.bucket
       /\ itrBucketPos' = r.pos
       /\ itrPushedBackSuffix' = r.pushed
       /\ cur' = r.cur
    /\ ret' = [op |-> "resetSuffixItr", at |-> situation, thrown |-> FALSE, off |-> NONE,
               flag |-> FALSE]
    /\ out' = <<>>
    /\ pc' = IF resetBuilds(built) THEN "ctor" ELSE pc
    /\ UNCHANGED <<config, dc, sampleSuffs, built, limit, scan>>

Next ==
    \/ Build
    \/ BuildSamplesDraw
    \/ RefinePass
    \/ NextSuffix
    \/ HasMoreSuffixes
    \/ ResetSuffixItr

Spec == Init /\ [][Next]_vars

\* The builder on longer texts with a difference cover, where suffixCmp goes
\* past the Z horizon and calls tieBreakingLcp.
InitDc ==
    /\ text \in DcTexts
    /\ bucketSz \in {Max(b, MinBucketSz) : b \in 1 .. MaxBucketSz}
    /\ dcV \in DcVs \ {0}
    /\ dc = FALSE
    /\ sampleSuffs = <<>>
    /\ cur = 0
    /\ built = FALSE
    /\ itrBucket = <<>>
    /\ itrBucketPos = NONE
    /\ itrPushedBackSuffix = NONE
    /\ pc = "ctor"
    /\ limit = 0
    /\ ret = noCall
    /\ out = <<>>
    /\ randomSrc = AnyU32
    /\ scan = noScan

SpecDc == InitDc /\ [][Next]_vars

\* The builder with a difference cover and the largest bucket size on the
\* texts of CmpTexts.
InitCmp ==
    /\ text \in CmpTexts
    /\ bucketSz = MaxBucketSz
    /\ dcV \in DcVs \ {0}
    /\ dc = FALSE
    /\ sampleSuffs = <<>>
    /\ cur = 0
    /\ built = FALSE
    /\ itrBucket = <<>>
    /\ itrBucketPos = NONE
    /\ itrPushedBackSuffix = NONE
    /\ pc = "ctor"
    /\ limit = 0
    /\ ret = noCall
    /\ out = <<>>
    /\ randomSrc = AnyU32
    /\ scan = noScan

SpecCmp == InitCmp /\ [][Next]_vars

\* The builder with bucket size 2 on texts of one repeated symbol and a random
\* source that only ever returns 0: every draw is offset 0 and every bucket is
\* represented by its last member, so each pass splits one offset off the one
\* large bucket and the longest texts use up the limit of buildSamples.
RefineTexts == {[x \in 1 .. n |-> 0] : n \in 0 .. RefineLen}

InitRefine ==
    /\ text \in RefineTexts
    /\ bucketSz = MinBucketSz
    /\ dcV \in DcVs
    /\ dc = FALSE
    /\ sampleSuffs = <<>>
    /\ cur = 0
    /\ built = FALSE
    /\ itrBucket = <<>>
    /\ itrBucketPos = NONE
    /\ itrPushedBackSuffix = NONE
    /\ pc = "ctor"
    /\ limit = 0
    /\ ret = noCall
    /\ out = <<>>
    /\ randomSrc = {0}
    /\ scan = noScan

SpecRefine == InitRefine /\ [][Next]_vars

\* ------------------------------------------------- the scan loop, stepwise
\* The ten-stretch loop of nextBlock and of buildSamples, one loop test at a
\* time, in unsigned arithmetic of OffBits bits:
\*   uint32_t lenDiv10 = (len + 9) / 10;
\*   for(uint32_t iten = 0; iten < len; iten += lenDiv10) {
\*     uint32_t itenNext = iten + lenDiv10;
\*     for(uint32_t i = iten; i < itenNext && i < len; i++) { visit i }
\*   }

\* The text lengths the scan is run on: every length that leaves 0xffffffff
\* free as the "none" offset.
ScanLens == 0 .. (2 ^ OffBits) - 2

\* The locals when the loop is entered for a text of length len.
scanStart(len) ==
    [len |-> len, lenDiv10 |-> ((len + 9) % (2 ^ OffBits)) \div 10,
     iten |-> 0, itenNext |-> 0, i |-> 0, visited |-> <<>>, at |-> "outer"]

\* The test of the outer loop: enter a stretch, or leave the loop.
ScanOuter ==
    /\ pc = "scan"
    /\ scan.at = "outer"
    /\ scan' = IF scan.iten < scan.len
               THEN [scan EXCEPT !.itenNext = (scan.iten + scan.lenDiv10) % (2 ^ OffBits),
                                 !.i = scan.iten,
                                 !.at = "inner"]
               ELSE [scan EXCEPT !.at = "done"]
    /\ UNCHANGED <<config, dc, sampleSuffs, cur, built, itrBucket, itrBucketPos,
                   itrPushedBackSuffix, pc, limit, ret, out>>

\* The test of the inner loop: visit offset i and step to i + 1, or end the
\* stretch with iten += lenDiv10.
ScanInner ==
    /\ pc = "scan"
    /\ scan.at = "inner"
    /\ scan' = IF scan.i < scan.itenNext /\ scan.i < scan.len
               THEN [scan EXCEPT !.visited = Append(@, scan.i),
                                 !.i = (scan.i + 1) % (2 ^ OffBits)]
               ELSE [scan EXCEPT !.iten = (scan.iten + scan.lenDiv10) % (2 ^ OffBits),
                                 !.at = "outer"]
    /\ UNCHANGED <<config, dc, sampleSuffs, cur, built, itrBucket, itrBucketPos,
                   itrPushedBackSuffix, pc, limit, ret, out>>

InitScan ==
    /\ text = <<>>
    /\ bucketSz = MinBucketSz
    /\ dcV = 0
    /\ dc = FALSE
    /\ sampleSuffs = <<>>
    /\ cur = 0
    /\ built = FALSE
    /\ itrBucket = <<>>
    /\ itrBucketPos = NONE
    /\ itrPushedBackSuffix = NONE
    /\ pc = "scan"
    /\ limit = 0
    /\ ret = noCall
    /\ out = <<>>
    /\ randomSrc = AnyU32
    /\ scan \in {scanStart(len) : len \in ScanLens}

NextScan ==
    \/ ScanOuter
    \/ ScanInner

\* The loop is sequential code: whenever it can take a step it takes it.
SpecScan == InitScan /\ [][NextScan]_vars /\ WF_vars(NextScan)

\* ------------------------------------------------------------------- claims
ready == pc = "ready"

\* The last call was a nextSuffix that threw out_of_range.
threw == ret.op = "nextSuffix" /\ ret.thrown

\* The offsets a freshly constructed builder returns when nextSuffix alone
\* is called until it throws.
freshSequence ==
    drain(text, bucketSz, dcV, dc, sampleSuffs, freshItr, Len(text) + 2)

\* The offsets nextSuffix returns from the current state until it throws.
restSequence ==
    drain(text, bucketSz, dcV, dc, sampleSuffs, itr, Len(text) + 2)

\* What nextBlock would produce in the current state.
blockNow == nextBlock(text, bucketSz, dcV, dc, sampleSuffs, cur)

\* Offset i lies in the bucket with index r that the samples induce.
inBucket(i, r) ==
    /\ i \notin Range(sampleSuffs)
    /\ r = 0 \/ dollarLt(text, sampleSuffs[r], i)
    /\ r = Len(sampleSuffs) \/ dollarLt(text, i, sampleSuffs[r + 1])

bucketOf(r) == {i \in 0 .. Len(text) - 1 : inBucket(i, r)}

\* The members of a set of offsets in increasing order.
SetToSeq(d) ==
    [x \in 1 .. Cardinality(d) |->
        CHOOSE o \in d : Cardinality({y \in d : y < o}) = x - 1]

\* The last element of block r: its upper sample, or n for the final block.
hiOr(r) == IF r < Len(sampleSuffs) THEN sampleSuffs[r + 1] ELSE Len(text)

\* C1: when nextSuffix throws, the offsets returned since construction (or
\* since the last reset) are 0 .. n, each exactly once: n + 1 returns, none
\* missing, none repeated.
C1_Completeness ==
    (ready /\ threw) =>
        /\ Len(out) = Len(text) + 1
        /\ Range(out) = 0 .. Len(text)

C1_Witness ==
    /\ ready /\ threw
    /\ Len(sampleSuffs) >= 2
    /\ Len(out) >= 5

\* C2 as stated: consecutive returned offsets increase in the order in which
\* the appended $ is the smallest symbol, so n comes first, "a" gives [1, 0]
\* and "banana" gives [6, 5, 3, 1, 0, 4, 2].
C2_SortedDollarLeast ==
    ready =>
        /\ \A p \in 1 .. Len(out) - 1 : dollarLeastLt(text, out[p], out[p + 1])
        /\ Len(out) >= 1 => out[1] = Len(text)
        /\ (threw /\ text = <<0>>) => out = <<1, 0>>
        /\ (threw /\ text = Banana) => out = <<6, 5, 3, 1, 0, 4, 2>>

\* C2 amended: consecutive returned offsets increase in the order in which
\* the suffix that runs off the end of the text first is the greater one (the
\* appended $ is the greatest symbol), so n comes last, "a" gives [0, 1] and
\* "banana" gives [1, 3, 5, 0, 2, 4, 6].
C2_SortedDollarGreatest ==
    ready =>
        /\ \A p \in 1 .. Len(out) - 1 : dollarLt(text, out[p], out[p + 1])
        /\ threw => (Len(out) >= 1 /\ out[Len(out)] = Len(text))
        /\ (threw /\ text = <<0>>) => out = <<0, 1>>
        /\ (threw /\ text = Banana) => out = <<1, 3, 5, 0, 2, 4, 6>>

C2_Witness ==
    /\ ready /\ threw
    /\ text = Banana
    /\ Len(sampleSuffs) >= 2

\* C3: every block nextBlock produced holds at most B elements (so the scan
\* collected fewer than B before the bookend or n was appended).
C3_BucketSizeBound == Len(itrBucket) <= bucketSz

\* A full middle block.
C3_Witness ==
    /\ ready
    /\ Len(itrBucket) = bucketSz
    /\ bucketSz >= 3
    /\ cur >= 2 /\ cur <= Len(sampleSuffs)

\* C4: however hasMoreSuffixes calls are mixed in, the offsets nextSuffix has
\* returned are the beginning of the sequence it returns without any probe,
\* and a pushed-back suffix is the very next offset of that sequence.
C4_PushbackCorrect ==
    ready =>
        \A fresh \in {freshSequence} :
            /\ Len(out) <= Len(fresh)
            /\ \A p \in 1 .. Len(out) : out[p] = fresh[p]
            /\ itrPushedBackSuffix # NONE =>
                  /\ Len(out) < Len(fresh)
                  /\ itrPushedBackSuffix = fresh[Len(out) + 1]

\* nextSuffix has just handed out a pushed-back suffix that came from a
\* later block.
C4_Witness ==
    /\ ready
    /\ ret.op = "nextSuffix" /\ ret.at = "pending" /\ ~ret.thrown
    /\ cur >= 2 /\ itrBucketPos = 1
    /\ Len(out) >= 3

\* C5: right after resetSuffixItr, whatever the situation it was called in,
\* the offsets the following nextSuffix calls return are those a freshly
\* constructed builder returns, and the first of them is the smallest suffix.
C5_ResetIdempotent ==
    (ready /\ ret.op = "resetSuffixItr") =>
        \A rest \in {restSequence} :
            /\ rest = freshSequence
            /\ Len(rest) = Len(text) + 1
            /\ \A o \in 0 .. Len(text) :
                  o # rest[1] => dollarLt(text, rest[1], o)

\* A reset with a pushed-back suffix pending, in the middle of a later block.
C5_Witness ==
    /\ ready
    /\ ret.op = "resetSuffixItr" /\ ret.at = "pending"
    /\ Len(sampleSuffs) >= 2

\* C6: hasMoreSuffixes has returned true exactly when the next nextSuffix
\* call returns an offset.
C6_HasMoreIffNext ==
    (ready /\ ret.op = "hasMoreSuffixes") =>
        (ret.flag <=>
            ~nextSuffix(text, bucketSz, dcV, dc, sampleSuffs, itr).thrown)

\* hasMoreSuffixes had to build a later block to answer true.
C6_Witness ==
    /\ ready
    /\ ret.op = "hasMoreSuffixes" /\ ret.flag /\ ret.at = "mid"
    /\ cur >= 2 /\ itrBucketPos = 1

\* C7: nextSuffix throws exactly when no pushed-back suffix is pending, the
\* bucket is used up and _cur > |S|; everywhere else it returns an offset.
C7_ExhaustedExactly ==
    ready =>
        /\ nextSuffix(text, bucketSz, dcV, dc, sampleSuffs, itr).thrown
             <=> /\ itrPushedBackSuffix = NONE
                 /\ consumed(itr)
                 /\ cur > Len(sampleSuffs)
        /\ threw => /\ itrPushedBackSuffix = NONE
                    /\ consumed(itr)
                    /\ cur > Len(sampleSuffs)

C7_Witness ==
    /\ ready /\ threw
    /\ Len(sampleSuffs) >= 1
    /\ cur = Len(sampleSuffs) + 1

\* C8: whenever buildSamples has returned, the samples are in strictly
\* increasing suffix order (so no offset occurs twice) and each of the
\* |S| + 1 buckets holds at most bsz = B - 1 non-sample offsets.
C8_SamplesPost ==
    (ready /\ bucketSz <= Len(text)) =>
        /\ \A p \in 1 .. Len(sampleSuffs) - 1 :
              dollarLt(text, sampleSuffs[p], sampleSuffs[p + 1])
        /\ \A p, q \in 1 .. Len(sampleSuffs) :
              p # q => sampleSuffs[p] # sampleSuffs[q]
        /\ \A r \in 0 .. Len(sampleSuffs) :
              Cardinality(bucketOf(r)) <= bucketSz - 1

\* buildSamples returned after at least two passes with a bucket that is
\* exactly full.
C8_Witness ==
    /\ ready /\ bucketSz <= Len(text)
    /\ limit <= RefineLimit - 2
    /\ Len(sampleSuffs) >= 2
    /\ \E r \in 0 .. Len(sampleSuffs) : Cardinality(bucketOf(r)) = bucketSz - 1

\* C9: every suffixCmp call of the scan of the next block is made with
\* i # cmp and returns true exactly when suffix(i) < suffix(cmp) by raw
\* character-wise comparison (the suffix that falls off the text first being
\* the greater one).
C9_CmpSound ==
    (ready /\ cur <= Len(sampleSuffs)) =>
        \A calls \in {blockNow.calls} :
            \A p \in 1 .. Len(calls) :
                /\ calls[p].i # calls[p].cmp
                /\ calls[p].ret <=> dollarLt(text, calls[p].i, calls[p].cmp)

\* A scan in which the tie-breaker answered from the difference cover and
\* other calls took the Z-box paths.
C9_Witness ==
    /\ ready /\ cur <= Len(sampleSuffs)
    /\ \E calls \in {blockNow.calls} :
          /\ \E p \in 1 .. Len(calls) : calls[p].path = "tie" /\ calls[p].kSoft
          /\ \E p \in 1 .. Len(calls) : calls[p].path = "extend"
          /\ \E p \in 1 .. Len(calls) : calls[p].path = "inside"

\* C10: with dc_v = 0 no difference cover is built, tieBreakingLcp is never
\* called, and every nextBlock call gets through all of its assertions and
\* yields the bucket of its index in suffix order.
C10_DcvZeroSupported ==
    (ready /\ dcV = 0) =>
        /\ ~dc
        /\ cur <= Len(sampleSuffs) =>
              \A nb \in {blockNow} :
                  /\ \A p \in 1 .. Len(nb.calls) : nb.calls[p].path # "tie"
                  /\ nb.bucket = Append(mkeyQSortSuf(text, SetToSeq(bucketOf(cur))),
                                        hiOr(cur))
                  /\ nb.ok

\* C11: build runs buildSamples exactly when n >= B (B after clamping to at
\* least 2); when n < B it leaves S empty and the iteration is one block that
\* holds the n + 1 offsets 0 .. n, after which no block is left.
C11_SmallTextOneBlock ==
    /\ (pc = "buildSamples" \/ pc = "refine") => Len(text) >= bucketSz
    /\ ready =>
          /\ (limit # 0) <=> (Len(text) >= bucketSz)
          /\ Len(text) < bucketSz =>
                /\ sampleSuffs = <<>>
                /\ cur <= 1
                /\ \A nb \in {nextBlock(text, bucketSz, dcV, dc, sampleSuffs, 0)} :
                      /\ Len(nb.bucket) = Len(text) + 1
                      /\ Range(nb.bucket) = 0 .. Len(text)
                      /\ ~hasMoreBlocks(sampleSuffs, nb.cur)
                      /\ cur = 1 => itrBucket = nb.bucket

\* The single block of a text one symbol shorter than B has been handed out
\* in full.
C11_Witness ==
    /\ ready /\ threw
    /\ Len(text) = bucketSz - 1
    /\ Len(text) >= 3
    /\ cur = 1 /\ Len(out) = Len(text) + 1

\* C12: on the empty text the iterator returns the single offset 0 (the $
\* suffix) and the nextSuffix call after it throws.
C12_EmptyText ==
    (ready /\ Len(text) = 0) =>
        /\ freshSequence = <<0>>
        /\ Len(out) <= 1
        /\ \A p \in 1 .. Len(out) : out[p] = 0
        /\ threw => out = <<0>>
        /\ (Len(out) = 1 /\ itrPushedBackSuffix = NONE) =>
              nextSuffix(text, bucketSz, dcV, dc, sampleSuffs, itr).thrown

\* The empty text has been iterated to the end.
C12_Witness ==
    /\ ready /\ threw
    /\ Len(text) = 0
    /\ out = <<0>>

\* The offsets 0 .. n - 1 in increasing order.
upTo(n) == [p \in 1 .. n |-> p - 1]

\* C13: in unsigned arithmetic of OffBits bits, for every text length n up to
\* 2^OffBits - 2 the ten-stretch scan loop terminates and has then visited the
\* offsets 0 .. n - 1, each once and in increasing order (and what it has
\* visited so far is always the beginning of that sequence).
C13_ScanVisitsAll ==
    /\ [](pc = "scan" =>
            /\ Len(scan.visited) <= scan.len
            /\ scan.visited = upTo(Len(scan.visited)))
    /\ [](pc = "scan" /\ scan.at = "done" => scan.visited = upTo(scan.len))
    /\ <>(pc = "scan" => scan.at = "done")

\* What the block accumulator loop of nextBlock would collect in the current
\* state (before the sort and the appended bookend).
scanNow == accumulate(text, bucketSz, dcV, dc, sampleSuffs, cur)

\* C14: for block index k = _cur with lo = S[k-1] and hi = S[k] where
\* present, the scan collects, each once, exactly the offsets i < n other than
\* lo and hi with suffix(i) < suffix(hi) and suffix(lo) < suffix(i) (in the
\* comparator's order: the suffix that runs off the text first is the greater
\* one), while no comparator is called on a bookend offset and the lower
\* comparator is called only for offsets the upper one let through.
C14_BucketMembership ==
    (ready /\ Len(sampleSuffs) > 0 /\ cur <= Len(sampleSuffs)) =>
        \A acc \in {scanNow} :
            /\ Range(acc.bucket) = bucketOf(cur)
            /\ Len(acc.bucket) = Cardinality(bucketOf(cur))
            /\ \A p \in 1 .. Len(acc.calls) :
                  /\ acc.calls[p].i # loOf(sampleSuffs, cur)
                  /\ acc.calls[p].i # hiOf(sampleSuffs, cur)
                  /\ (acc.calls[p].cmp = loOf(sampleSuffs, cur)
                        /\ hiOf(sampleSuffs, cur) # NONE) =>
                        /\ p > 1
                        /\ acc.calls[p - 1].cmp = hiOf(sampleSuffs, cur)
                        /\ acc.calls[p - 1].i = acc.calls[p].i
                        /\ acc.calls[p - 1].ret

\* A middle block whose scan turned offsets away at the upper bound (so the
\* lower comparator skipped them), turned others away at the lower bound and
\* collected at least two.
C14_Witness ==
    /\ ready /\ cur >= 1 /\ cur < Len(sampleSuffs)
    /\ \E acc \in {scanNow} :
          /\ Len(acc.bucket) >= 2
          /\ \E p \in 1 .. Len(acc.calls) :
                acc.calls[p].cmp = hiOf(sampleSuffs, cur) /\ ~acc.calls[p].ret
          /\ \E p, q \in 1 .. Len(acc.calls) :
                /\ p < q
                /\ acc.calls[p].cmp = loOf(sampleSuffs, cur) /\ acc.calls[p].ret
                /\ acc.calls[q].cmp = loOf(sampleSuffs, cur) /\ ~acc.calls[q].ret

\* The last element of sequence b.
lastOf(b) == b[Len(b)]

\* C15: the last element of every non-final block k is its upper sample
\* S[k], the last element of the final block is n, and the last element of
\* block k is smaller in suffix order than every element of block k + 1.
C15_BlockBoundaries ==
    (ready /\ cur <= Len(sampleSuffs)) =>
        \A nb \in {blockNow} :
            /\ Len(nb.bucket) >= 1
            /\ cur < Len(sampleSuffs) =>
                  /\ lastOf(nb.bucket) = sampleSuffs[cur + 1]
                  /\ \A e \in Range(nextBlock(text, bucketSz, dcV, dc, sampleSuffs,
                                               cur + 1).bucket) :
                        dollarLt(text, lastOf(nb.bucket), e)
            /\ cur = Len(sampleSuffs) => lastOf(nb.bucket) = Len(text)

\* Two middle blocks in a row with at least two elements each.
C15_Witness ==
    /\ ready /\ cur >= 1 /\ cur + 1 < Len(sampleSuffs)
    /\ Len(blockNow.bucket) >= 2
    /\ Len(nextBlock(text, bucketSz, dcV, dc, sampleSuffs, cur + 1).bucket) >= 2

\* ceil(a / b) for b > 0.
ceilDiv(a, b) == (a + b - 1) \div b

\* C16: whenever buildSamples is about to draw (n >= B, bsz = B - 1), the
\* number of random offsets it draws before removing duplicates is
\* m = 2 * ceil(n / bsz) * 2.
C16_OversamplingFourfold ==
    pc = "buildSamples" =>
        numSamples(Len(text), bucketSz - 1)
            = 2 * ceilDiv(Len(text), bucketSz - 1) * 2

\* Sequence s of offsets is strictly increasing in suffix order.
sortedSamples(t, s) == \A x \in 1 .. Len(s) - 1 : dollarLt(t, s[x], s[x + 1])

\* The greatest member of s below suffix(e), the least member above it (NONE
\* when there is none).
belowOf(t, s, e) ==
    IF \E x \in Range(s) : dollarLt(t, x, e)
    THEN CHOOSE x \in Range(s) :
            /\ dollarLt(t, x, e)
            /\ \A y \in Range(s) : dollarLt(t, y, e) => (y = x \/ dollarLt(t, y, x))
    ELSE NONE

aboveOf(t, s, e) ==
    IF \E x \in Range(s) : dollarLt(t, e, x)
    THEN CHOOSE x \in Range(s) :
            /\ dollarLt(t, e, x)
            /\ \A y \in Range(s) : dollarLt(t, e, y) => (y = x \/ dollarLt(t, x, y))
    ELSE NONE

\* The offsets outside s whose suffix lies strictly between those of lo and
\* hi (NONE: unbounded on that side).
between(t, s, lo, hi) ==
    {o \in (0 .. Len(t) - 1) \ Range(s) :
        /\ lo = NONE \/ dollarLt(t, lo, o)
        /\ hi = NONE \/ dollarLt(t, o, hi)}

\* What C17 says of one logged iteration st of the split/merge loop.
stepFine(t, bsz, st) ==
    /\ sortedSamples(t, st.samples)
    /\ st.numBuckets = Len(st.samples) + 1 - st.added
    /\ (st.kind = "merge") <=> (st.hasNext /\ st.szI + st.szNext + 1 <= bsz)
    /\ (st.kind = "split") <=> (st.szI > bsz)
    /\ st.kind = "split" => ~st.fromMerge
    /\ st.kind = "none" => st.samples = st.before
    /\ st.kind = "merge" =>
          /\ st.elt \in Range(st.before)
          /\ Range(st.samples) = Range(st.before) \ {st.elt}
          /\ Len(st.samples) = Len(st.before) - 1
          /\ Cardinality(between(t, st.before, belowOf(t, st.before, st.elt), st.elt))
                = st.szI
          /\ Cardinality(between(t, st.before, st.elt, aboveOf(t, st.before, st.elt)))
                = st.szNext
    /\ st.kind = "split" =>
          /\ st.elt # NONE
          /\ st.elt \notin Range(st.before)
          /\ Range(st.samples) = Range(st.before) \cup {st.elt}
          /\ Len(st.samples) = Len(st.before) + 1
          /\ Cardinality(between(t, st.before, belowOf(t, st.before, st.elt),
                                 aboveOf(t, st.before, st.elt)))
                = st.szI

\* C17: in every split/merge pass that can follow the current samples, S is
\* sorted by suffix and free of duplicates after each iteration; a merge is
\* made exactly when bucket_sz[i] + bucket_sz[i+1] + 1 <= bsz and removes
\* just the sample between bucket i and bucket i+1; a split is made exactly
\* when bucket_sz[i] > bsz and puts a member of bucket i between the two
\* samples that bound it; a bucket a merge produced is not split in the same
\* pass; and numBuckets = |S| + 1 - added after each iteration.
C17_SplitMergeSteps ==
    (pc = "refine" /\ limit - 1 # 0) =>
        /\ sortedSamples(text, sampleSuffs)
        /\ \A reps \in repChoices(text, sampleSuffs, Len(sampleSuffs) + 1, randomSrc) :
              \A r \in {refinePass(text, bucketSz - 1, sampleSuffs, reps)} :
                  \A p \in 1 .. Len(r.steps) : stepFine(text, bucketSz - 1, r.steps[p])

\* A pass that splits a bucket and later merges two (so the merge happens
\* with added > 0), the merged bucket being looked at again afterwards.
C17_Witness ==
    /\ pc = "refine" /\ limit - 1 # 0
    /\ \E reps \in repChoices(text, sampleSuffs, Len(sampleSuffs) + 1, randomSrc) :
          \E r \in {refinePass(text, bucketSz - 1, sampleSuffs, reps)} :
              \E p, q \in 1 .. Len(r.steps) :
                  /\ p < q /\ q < Len(r.steps)
                  /\ r.steps[p].kind = "split"
                  /\ r.steps[q].kind = "merge"
                  /\ r.steps[q + 1].fromMerge

\* C18: an attempt of buildSamples makes at most 20 passes; it goes on to
\* another pass only after a pass that made a split, and returns right after
\* a pass that made none (whether or not it merged); when the limit is used
\* up it starts over: limit is set afresh and the new S holds freshly drawn
\* offsets only.
C18_RefineBound ==
    [][/\ pc = "refine" =>
             /\ pc' \in {"refine", "ready", "buildSamples"}
             /\ pc' = "refine" =>
                   /\ limit' = limit - 1
                   /\ RefineLimit - limit' <= 20
                   /\ ~(Range(sampleSuffs') \subseteq Range(sampleSuffs))
             /\ pc' = "ready" =>
                   /\ limit' = limit - 1
                   /\ RefineLimit - limit' <= 20
                   /\ Range(sampleSuffs') \subseteq Range(sampleSuffs)
       /\ pc = "buildSamples" =>
             /\ pc' = "refine"
             /\ limit' = RefineLimit
             /\ Range(sampleSuffs') \subseteq {x % Len(text) : x \in randomSrc}
             /\ sortedSamples(text, sampleSuffs')
      ]_vars

\* The limit is used up after passes that each made a split: buildSamples is
\* about to start over and discard the samples it has.
C18_Witness ==
    /\ pc = "buildSamples"
    /\ limit = 0
    /\ Len(sampleSuffs) >= 2

\* C19: on every return of suffixCmp the match length l is the true longest
\* common prefix of suffix(i) and suffix(cmp) when kSoft is false then, and
\* at most that when kSoft is true; after an extension l is exact, and in the
\* cross case with kSoft false l = k - i is exact without any extension.
C19_LcpExact ==
    (ready /\ cur <= Len(sampleSuffs)) =>
        \A calls \in {blockNow.calls} :
            \A p \in 1 .. Len(calls) :
                \A c \in {calls[p]} :
                    /\ ~c.kSoft => c.l = suffixLcp(text, c.i, c.cmp)
                    /\ c.kSoft => c.l <= suffixLcp(text, c.i, c.cmp)
                    /\ c.path \in {"fresh", "extend", "crossSoft"} =>
                          (~c.kSoft /\ c.l = suffixLcp(text, c.i, c.cmp))
                    /\ c.path = "cross" =>
                          /\ ~c.kSoft
                          /\ c.l = c.k - c.i
                          /\ c.l = suffixLcp(text, c.i, c.cmp)

\* A scan with a cross over a hard k whose l is positive.
C19_WitnessCross ==
    /\ ready /\ cur <= Len(sampleSuffs)
    /\ \E calls \in {blockNow.calls} :
          \E p \in 1 .. Len(calls) : calls[p].path = "cross" /\ calls[p].l >= 1

\* A scan with a tie-breaker answer that is exact (kSoft false).
C19_WitnessHardTie ==
    /\ ready /\ cur <= Len(sampleSuffs)
    /\ \E calls \in {blockNow.calls} :
          \E p \in 1 .. Len(calls) : calls[p].path = "tie" /\ ~calls[p].kSoft

\* A scan with a cross over a soft k, which is extended.
C19_WitnessCrossSoft ==
    /\ ready /\ cur <= Len(sampleSuffs)
    /\ \E calls \in {blockNow.calls} :
          \E p \in 1 .. Len(calls) : calls[p].path = "crossSoft"

\* A scan with a tie-breaker answer whose l is short of the true longest
\* common prefix and, among the calls with an exact l, an extension and a
\* cross over a hard k, both with a positive l.
C19_Witness ==
    /\ ready /\ cur <= Len(sampleSuffs)
    /\ \E calls \in {blockNow.calls} :
          /\ \E p \in 1 .. Len(calls) :
                /\ calls[p].path = "tie" /\ calls[p].kSoft
                /\ calls[p].l < suffixLcp(text, calls[p].i, calls[p].cmp)
          /\ \E p \in 1 .. Len(calls) :
                calls[p].path = "extend" /\ calls[p].l >= 1
          /\ \E p \in 1 .. Len(calls) :
                calls[p].path = "cross" /\ calls[p].l >= 1

\* The calls before call p of a scan that were made for the same bookend.
earlierCalls(calls, p) == {q \in 1 .. p - 1 : calls[q].cmp = calls[p].cmp}

\* The bookend's k when call p was entered: the k its previous call left, or
\* the initial -1.
kBefore(calls, p) ==
    IF earlierCalls(calls, p) = {} THEN cmpInit.k
    ELSE calls[CHOOSE q \in earlierCalls(calls, p) :
                   \A r \in earlierCalls(calls, p) : r <= q].k

\* After call c, [j, k) is a match region of the bookend: suffix(j) and
\* suffix(cmp) agree on k - j symbols, and on no more unless k is soft.
matchRegion(c) ==
    /\ c.j <= c.k
    /\ c.k - c.j <= suffixLcp(text, c.j, c.cmp)
    /\ ~c.kSoft => c.k - c.j = suffixLcp(text, c.j, c.cmp)

\* C20 as stated: for each bookend k never decreases from one suffixCmp call
\* of a scan to the next, the calls taking the tie-breaker path included,
\* and k is j plus the length of the match region beginning at j.
C20_KNeverDecreases ==
    (ready /\ cur <= Len(sampleSuffs)) =>
        \A calls \in {blockNow.calls} :
            \A p \in 1 .. Len(calls) :
                /\ calls[p].k >= kBefore(calls, p)
                /\ matchRegion(calls[p])

\* C20 amended: for each bookend k never decreases over a suffixCmp call
\* that does not take the tie-breaker path; a call that takes it sets j = i
\* and k = i + l, which may be less than k was; after every call k is j plus
\* the length of the match region beginning at j (a lower bound of it when
\* k is soft).
C20_KNeverDecreasesOffTie ==
    (ready /\ cur <= Len(sampleSuffs)) =>
        \A calls \in {blockNow.calls} :
            \A p \in 1 .. Len(calls) :
                \A c \in {calls[p]} :
                    /\ c.path # "tie" => c.k >= kBefore(calls, p)
                    /\ c.path = "tie" => (c.j = c.i /\ c.k = c.i + c.l)
                    /\ matchRegion(c)

\* A scan in which a tie-breaker call left k below what it was, and a later
\* call for the same bookend raised k again.
C20_Witness ==
    /\ ready /\ cur <= Len(sampleSuffs)
    /\ \E calls \in {blockNow.calls} :
          \E p \in 1 .. Len(calls) :
             /\ calls[p].path = "tie"
             /\ calls[p].k < kBefore(calls, p)
             /\ \E q \in p + 1 .. Len(calls) :
                   /\ calls[q].cmp = calls[p].cmp
                   /\ calls[q].path # "tie"
                   /\ calls[q].k > kBefore(calls, q)

\* What a step leaves of the sample set S, the difference cover D, the
\* built flag and the random source.
builtFrame ==
    /\ sampleSuffs' = sampleSuffs
    /\ dc' = dc
    /\ built' = built
    /\ randomSrc' = randomSrc

\* C21: resetSuffixItr clears the bucket and the pushback and sets the block
\* cursor to 0, and leaves S, the difference cover, the built flag and the
\* random source as they were; once the builder is built no step (reset,
\* nextSuffix, hasMoreSuffixes) rebuilds or changes S or D.
C21_ResetFrame ==
    [][/\ (pc = "ready" /\ ret'.op = "resetSuffixItr") =>
             /\ itrBucket' = <<>>
             /\ itrBucketPos' = NONE
             /\ itrPushedBackSuffix' = NONE
             /\ cur' = 0
             /\ builtFrame
       /\ built => (builtFrame /\ pc' = "ready")]_vars

\* resetSuffixItr was called with samples and a difference cover in place,
\* on an iterator that held a pushed-back suffix after some blocks.
C21_Witness ==
    /\ ret.op = "resetSuffixItr"
    /\ ret.at = "pending"
    /\ Len(sampleSuffs) >= 2
    /\ dc
    /\ built
    /\ cur = 0 /\ itrBucket = <<>> /\ itrPushedBackSuffix = NONE

\* The bookend's j when call p was entered: the j its previous call left, or
\* the initial -1.
jBefore(calls, p) ==
    IF earlierCalls(calls, p) = {} THEN cmpInit.j
    ELSE calls[CHOOSE q \in earlierCalls(calls, p) :
                   \A r \in earlierCalls(calls, p) : r <= q].j

\* The offset of the bookend's previous call, or -1 when call p is its first.
iBefore(calls, p) ==
    IF earlierCalls(calls, p) = {} THEN -1
    ELSE calls[CHOOSE q \in earlierCalls(calls, p) :
                   \A r \in earlierCalls(calls, p) : r <= q].i

\* C22: at every suffixCmp call of a bucket scan j < i for the bookend's
\* state, and when i is covered (i <= k) zIdx = i - j <= n - cmp; the state a
\* call is entered with and the state it leaves satisfy 0 <= k - j <= n - cmp
\* and k <= n, also when the calls for a bookend skip offsets.
C22_CmpStateInv ==
    (ready /\ cur <= Len(sampleSuffs)) =>
        \A calls \in {blockNow.calls} :
            \A p \in 1 .. Len(calls) :
                \A c \in {calls[p]} :
                    \A jB \in {jBefore(calls, p)} :
                        \A kB \in {kBefore(calls, p)} :
                            /\ jB < c.i
                            /\ c.i <= kB => c.i - jB <= Len(text) - c.cmp
                            /\ 0 <= kB - jB
                            /\ kB - jB <= Len(text) - c.cmp
                            /\ kB <= Len(text)
                            /\ 0 <= c.k - c.j
                            /\ c.k - c.j <= Len(text) - c.cmp
                            /\ c.k <= Len(text)
                            /\ c.j < c.i + 1

\* A scan in which a call for the lower bookend comes after an offset that
\* is no bookend was skipped for it (the upper-bound test rejected it) and
\* finds its own offset covered by the match region the previous call left.
C22_Witness ==
    /\ ready /\ cur <= Len(sampleSuffs)
    /\ \E calls \in {blockNow.calls} :
          \E p \in 1 .. Len(calls) :
             /\ calls[p].cmp = loOf(sampleSuffs, cur)
             /\ iBefore(calls, p) >= 0
             /\ \E x \in iBefore(calls, p) + 1 .. calls[p].i - 1 :
                   x \notin {loOf(sampleSuffs, cur), hiOf(sampleSuffs, cur)}
             /\ calls[p].i <= kBefore(calls, p)

\* A scan in which a call comes right after the bookend itself was skipped,
\* finds its offset covered, and some call is answered by the tie-breaker.
C22_WitnessBookend ==
    /\ ready /\ cur <= Len(sampleSuffs)
    /\ \E calls \in {blockNow.calls} :
          /\ \E p \in 1 .. Len(calls) :
                /\ iBefore(calls, p) >= 0
                /\ calls[p].i >= iBefore(calls, p) + 2
                /\ calls[p].i <= kBefore(calls, p)
          /\ \E p \in 1 .. Len(calls) : calls[p].path = "tie"

\* The last public call found the iteration exhausted: nextSuffix threw or
\* hasMoreSuffixes returned false.
lastCallFailed ==
    \/ ret.op = "nextSuffix" /\ ret.thrown
    \/ ret.op = "hasMoreSuffixes" /\ ~ret.flag

\* C23: a nextSuffix call that throws leaves the bucket, the bucket position,
\* the pushback (none) and the block cursor as they were; after it, and after
\* every further failing call, nextSuffix throws again and hasMoreSuffixes
\* returns false without changing the iterator, until resetSuffixItr.
C23_ExhaustionAbsorbing ==
    [][pc = "ready" =>
         /\ (ret'.op = "nextSuffix" /\ ret'.thrown) =>
               (itr' = itr /\ itrPushedBackSuffix' = NONE)
         /\ (lastCallFailed /\ ret'.op = "nextSuffix") =>
               (ret'.thrown /\ itr' = itr)
         /\ (lastCallFailed /\ ret'.op = "hasMoreSuffixes") =>
               (~ret'.flag /\ itr' = itr)]_vars

\* nextSuffix threw on an iterator that had handed out every offset of a
\* text with samples: every block fetched, the last bucket used up, no
\* pushback.
C23_Witness ==
    /\ ret.op = "nextSuffix" /\ ret.thrown /\ ret.at = "exhausted"
    /\ Len(sampleSuffs) >= 1
    /\ Len(out) = Len(text) + 1
    /\ cur = Len(sampleSuffs) + 1
    /\ itrPushedBackSuffix = NONE
    /\ itrBucketPos = Len(itrBucket)

\* The offsets of the text: 0 .. n - 1.
offsets == 0 .. Len(text) - 1

\* C24: buildSamples runs only when n >= B >= 2, so bsz = B - 1 >= 1 and
\* n >= 2 (the division by bsz and the modulo by n have a non-zero divisor);
\* every element of S is an offset in [0, n), never n and never the
\* sentinel; and in every split/merge pass each bucket of non-zero size has
\* a representative that is an offset, not the sentinel.
C24_BuildSamplesSafe ==
    /\ pc \in {"buildSamples", "refine"} =>
          /\ bucketSz >= 2
          /\ Len(text) >= bucketSz
          /\ bucketSz - 1 >= 1
          /\ Len(text) >= 2
    /\ \A p \in 1 .. Len(sampleSuffs) :
          sampleSuffs[p] \in offsets /\ sampleSuffs[p] # NONE
    /\ (pc = "refine" /\ limit - 1 # 0) =>
          \A reps \in repChoices(text, sampleSuffs, Len(sampleSuffs) + 1, randomSrc) :
              \A r \in {refinePass(text, bucketSz - 1, sampleSuffs, reps)} :
                  /\ \A p \in 1 .. Len(r.steps) :
                        \A st \in {r.steps[p]} :
                            /\ st.szI > 0 => (st.rep # NONE /\ st.rep \in offsets)
                            /\ st.kind = "split" => st.elt \in offsets
                  /\ \A p \in 1 .. Len(r.samples) : r.samples[p] \in offsets

\* A pass on the smallest text buildSamples runs on for its bucket size
\* (n = B) or a longer one, in which a bucket is split with its
\* representative and a bucket a merge produced, whose representative is
\* the removed sample, is looked at again.
C24_Witness ==
    /\ pc = "refine" /\ limit - 1 # 0
    /\ \E reps \in repChoices(text, sampleSuffs, Len(sampleSuffs) + 1, randomSrc) :
          \E r \in {refinePass(text, bucketSz - 1, sampleSuffs, reps)} :
              /\ \E p \in 1 .. Len(r.steps) :
                    r.steps[p].kind = "split" /\ r.steps[p].elt = r.steps[p].rep
              /\ \E p \in 1 .. Len(r.steps) :
                    /\ r.steps[p].fromMerge
                    /\ r.steps[p].szI > 0
                    /\ r.steps[p].rep \in Range(sampleSuffs)

\* buildSamples was entered on a text of exactly B symbols.
C24_WitnessSmallest ==
    /\ pc = "buildSamples"
    /\ Len(text) = bucketSz

=============================================================================
